---------------------------- MODULE Spec2Model ----------------------------
(***************************************************************************)
(* Model of rocketmq-client/src/implementation/client_remoting_processor.rs *)
(* (ClientRemotingProcessor): the dispatcher process_request and its three  *)
(* handlers receive_reply_message / process_reply_message,                  *)
(* notify_consumer_ids_changed and check_transaction_state, together with   *)
(* the collaborators they drive (REQUEST_FUTURE_HOLDER, MQClientInstance).  *)
(***************************************************************************)
EXTENDS Integers, Sequences, FiniteSets, TLC

(***************************************************************************)
(* Option<T>: None is the empty tuple, Some(x) the one-element tuple.       *)
(***************************************************************************)
None == <<>>

Some(x) == <<x>>

Unwrap(o) == o[1]

UnwrapOr(o, d) == IF o = <<>> THEN d ELSE o[1]

(***************************************************************************)
(* Bounds of the exploration.                                               *)
(***************************************************************************)
\* number of process_request calls a behaviour may start
MaxRequests == 2

(***************************************************************************)
(* Request codes.  RequestCode::from maps the wire code to the enumeration; *)
(* the codes below are the ones process_request names, OtherCodes are       *)
(* codes of the enumeration (or unknown numbers) it does not name.          *)
(***************************************************************************)
UnimplementedCodes ==
    {"ResetConsumerClientOffset", "GetConsumerStatusFromClient",
     "GetConsumerRunningInfo", "ConsumeMessageDirectly"}

ImplementedCodes ==
    {"CheckTransactionState", "PushReplyMessageToClient", "NotifyConsumerIdsChanged"}

OtherCodes == {"SendMessage", "Unknown"}

(***************************************************************************)
(* Reserved property keys (MessageConst).                                   *)
(***************************************************************************)
PROPERTY_CORRELATION_ID == "CORRELATION_ID"

PROPERTY_REPLY_MESSAGE_ARRIVE_TIME == "ARRIVE_TIME"

PROPERTY_PRODUCER_GROUP == "PGROUP"

PROPERTY_UNIQ_CLIENT_MESSAGE_ID_KEYIDX == "UNIQ_KEY"

PropertyKeys ==
    {PROPERTY_CORRELATION_ID, PROPERTY_REPLY_MESSAGE_ARRIVE_TIME,
     PROPERTY_PRODUCER_GROUP, PROPERTY_UNIQ_CLIENT_MESSAGE_ID_KEYIDX}

\* a message's property map: every key is absent (None) or holds a string
EmptyProperties == [k \in PropertyKeys |-> None]

\* MessageAccessor::put_property: insert or overwrite one key
put_property(props, key, value) == [props EXCEPT ![key] = Some(value)]

\* MessageTrait::get_property
get_property(props, key) == props[key]

(***************************************************************************)
(* MessageDecoder::string_to_message_properties: the serialized properties  *)
(* string is a list of key/value entries; a later entry of a key replaces   *)
(* an earlier one; an absent string gives the empty map.                    *)
(***************************************************************************)
RECURSIVE parse_entries(_, _)
parse_entries(entries, props) ==
    IF entries = <<>> THEN props
    ELSE parse_entries(Tail(entries),
                       put_property(props, Head(entries)[1], Head(entries)[2]))

string_to_message_properties(s) ==
    IF s = None THEN EmptyProperties ELSE parse_entries(Unwrap(s), EmptyProperties)

(***************************************************************************)
(* Network addresses.  str::parse::<SocketAddr> accepts "ip:port" texts.    *)
(***************************************************************************)
DefaultAddr == [ip |-> "127.0.0.1", port |-> 0]

AddrTable ==
    {<<"10.0.0.1:9876", [ip |-> "10.0.0.1", port |-> 9876]>>,
     <<"10.0.0.2:10911", [ip |-> "10.0.0.2", port |-> 10911]>>}

parse_socket_addr(s) ==
    IF \E e \in AddrTable : e[1] = s
    THEN Some((CHOOSE e \in AddrTable : e[1] = s)[2])
    ELSE None

(***************************************************************************)
(* Compression.  The sys-flag's lowest bit says "compressed"; bits 8..10    *)
(* carry the algorithm id.  A compressed frame starts with the algorithm's  *)
(* magic byte and carries the payload after it; decompress fails on any     *)
(* other input.                                                             *)
(***************************************************************************)
is_compressed(sys_flag) == sys_flag % 2 = 1

get_compression_type(sys_flag) ==
    LET v == (sys_flag \div 256) % 8
    IN  IF v = 1 THEN "LZ4" ELSE IF v = 2 THEN "ZSTD" ELSE "ZLIB"

magic(ctype) == IF ctype = "LZ4" THEN 4 ELSE IF ctype = "ZSTD" THEN 40 ELSE 120

\* Compressor::decompress: Some(payload) on success, None on failure
decompress(ctype, bytes) ==
    IF Len(bytes) >= 2 /\ bytes[1] = magic(ctype) THEN Some(Tail(bytes)) ELSE None


(***************************************************************************)
(* Wire requests and responses (RemotingCommand).  ext names the header     *)
(* shape the request's ext fields form; decode_command_custom_header        *)
(* succeeds only for that shape.                                            *)
(***************************************************************************)
decode_command_custom_header(request, shape) ==
    IF request.ext = shape THEN Some(request.header) ELSE None

\* RemotingCommand::create_response_command
create_response_command == [code |-> "Success", remark |-> None]

set_code(response, code) == [response EXCEPT !.code = code]

set_remark(response, remark) == [response EXCEPT !.remark = remark]

\* the outcomes of one process_request call
OkNone == [response |-> None]

OkSome(response) == [response |-> Some(response)]

(***************************************************************************)
(* MessageExt::default().  A topic is the list of its '%'-separated parts:  *)
(* "NS%TopicA" is <<"NS", "TopicA">>, the empty topic is <<>>.              *)
(***************************************************************************)
DefaultMessageExt ==
    [topic |-> <<>>, queue_id |-> 0, store_timestamp |-> 0, born_timestamp |-> 0,
     born_host |-> DefaultAddr, store_host |-> DefaultAddr, body |-> None,
     flag |-> 0, properties |-> EmptyProperties, reconsume_times |-> 0,
     transaction_id |-> None]

(***************************************************************************)
(* receive_reply_message, lines 138-152: the body of the assembled message. *)
(* Only reached with a body when the compression bit is set.                *)
(***************************************************************************)
\* assemble_body that leaves the body unset when decompression fails
assemble_body_unset_on_error(sys_flag, body) ==
    IF is_compressed(sys_flag)
    THEN LET de_result == decompress(get_compression_type(sys_flag), Unwrap(body))
         IN  IF de_result # None THEN Some(Unwrap(de_result)) ELSE DefaultMessageExt.body
    ELSE DefaultMessageExt.body

assemble_body(sys_flag, body) ==
    IF is_compressed(sys_flag)
    THEN LET de_result == decompress(get_compression_type(sys_flag), Unwrap(body))
         IN  IF de_result # None THEN Some(Unwrap(de_result)) ELSE body
    ELSE DefaultMessageExt.body

(***************************************************************************)
(* receive_reply_message, lines 153-164: flag, properties, arrival time,    *)
(* born timestamp and reconsume times.                                      *)
(***************************************************************************)
\* assemble_properties that keeps an arrival time the properties string carries
assemble_properties_keep_broker(request_header, receive_time) ==
    LET parsed == string_to_message_properties(request_header.properties)
    IN  IF get_property(parsed, PROPERTY_REPLY_MESSAGE_ARRIVE_TIME) # None
        THEN parsed
        ELSE put_property(parsed, PROPERTY_REPLY_MESSAGE_ARRIVE_TIME,
                          ToString(receive_time))

assemble_properties(request_header, receive_time) ==
    put_property(string_to_message_properties(request_header.properties),
                 PROPERTY_REPLY_MESSAGE_ARRIVE_TIME, ToString(receive_time))

assemble_message(request_header, body, receive_time) ==
    [DefaultMessageExt EXCEPT
        !.topic = request_header.topic,
        !.queue_id = request_header.queue_id,
        !.store_timestamp = request_header.store_timestamp,
        !.born_host = UnwrapOr(parse_socket_addr(request_header.born_host), DefaultAddr),
        !.store_host = UnwrapOr(parse_socket_addr(request_header.store_host), DefaultAddr),
        !.body = assemble_body(request_header.sys_flag, body),
        !.flag = request_header.flag,
        !.properties = assemble_properties(request_header, receive_time),
        !.born_timestamp = request_header.born_timestamp,
        !.reconsume_times = UnwrapOr(request_header.reconsume_times, 0)]

\* host_error with the store-host failure reported under the born-host remark
host_error_same_remark(request_header) ==
    IF (request_header.born_host # "" /\ parse_socket_addr(request_header.born_host) = None)
       \/ (request_header.store_host # ""
           /\ parse_socket_addr(request_header.store_host) = None)
    THEN Some(set_remark(set_code(create_response_command, "SystemError"),
                         Some("parse born_host failed")))
    ELSE None

\* lines 112-137: the response of a host field that does not parse, if any
host_error(request_header) ==
    IF request_header.born_host # "" /\ parse_socket_addr(request_header.born_host) = None
    THEN Some(set_remark(set_code(create_response_command, "SystemError"),
                         Some("parse born_host failed")))
    ELSE IF request_header.store_host # ""
            /\ parse_socket_addr(request_header.store_host) = None
    THEN Some(set_remark(set_code(create_response_command, "SystemError"),
                         Some("parse store_host failed")))
    ELSE None

(***************************************************************************)
(* receive_reply_message up to its call of process_reply_message:           *)
(*   "panic"     an unwrap() failed (header decode, or an absent body with  *)
(*               the compression bit set);                                  *)
(*   "return"    an early return with a response;                           *)
(*   "correlate" the message handed to process_reply_message.               *)
(***************************************************************************)
receive_reply_message(request, receive_time) ==
    LET decoded == decode_command_custom_header(request, "ReplyMessageRequestHeader")
    IN  IF decoded = None THEN [kind |-> "panic"]
        ELSE LET request_header == Unwrap(decoded)
             IN  IF host_error(request_header) # None
                 THEN [kind |-> "return", result |-> OkSome(Unwrap(host_error(request_header)))]
                 ELSE IF is_compressed(request_header.sys_flag) /\ request.body = None
                 THEN [kind |-> "panic"]
                 ELSE [kind |-> "correlate",
                       msg |-> assemble_message(request_header, request.body, receive_time)]

(***************************************************************************)
(* RequestResponseFuture: put_response_message and on_success.              *)
(***************************************************************************)
put_response_message(fut, reply_msg) == [fut EXCEPT !.response = Some(reply_msg)]

on_success(fut) == [fut EXCEPT !.successCalls = @ + 1]

\* complete_future without the test for a callback
complete_future_always_calls(fut, reply_msg) ==
    on_success(put_response_message(fut, reply_msg))

\* process_reply_message, lines 179-182: completing the future found
complete_future(fut, reply_msg) ==
    LET stored == put_response_message(fut, reply_msg)
    IN  IF stored.callback THEN on_success(stored) ELSE stored

\* correlation_id_of with a registered id as the default
correlation_id_of_first(reply_msg) ==
    UnwrapOr(get_property(reply_msg.properties, PROPERTY_CORRELATION_ID), "cid-1")

\* process_reply_message, lines 171-174
correlation_id_of(reply_msg) ==
    UnwrapOr(get_property(reply_msg.properties, PROPERTY_CORRELATION_ID), "")


(***************************************************************************)
(* MessageDecoder::decode of a check request's body.  An encoded message is *)
(* the frame <<77, topic, group, key>> of indexes into the tables below;    *)
(* any other byte string does not decode.                                   *)
(***************************************************************************)
TopicTable == << <<"TopicA">>, <<"NS", "TopicA">> >>

GroupTable == <<None, Some("PG1"), Some("PG2")>>

KeyTable == <<None, Some(""), Some("tx-1")>>

decode(bytes) ==
    IF Len(bytes) = 4 /\ bytes[1] = 77
       /\ bytes[2] \in DOMAIN TopicTable /\ bytes[3] \in DOMAIN GroupTable
       /\ bytes[4] \in DOMAIN KeyTable
    THEN Some([DefaultMessageExt EXCEPT
                 !.topic = TopicTable[bytes[2]],
                 !.body = Some(bytes),
                 !.properties =
                     [EmptyProperties EXCEPT
                        ![PROPERTY_PRODUCER_GROUP] = GroupTable[bytes[3]],
                        ![PROPERTY_UNIQ_CLIENT_MESSAGE_ID_KEYIDX] = KeyTable[bytes[4]]]])
    ELSE None

\* NamespaceUtil::without_namespace_with_namespace
without_namespace_with_namespace(topic, namespace) ==
    IF topic = <<>> \/ namespace = "" THEN topic
    ELSE IF Len(topic) >= 2 /\ topic[1] = namespace THEN Tail(topic)
    ELSE topic

\* Channel::remote_address().to_string()
addr_to_string(addr) == (CHOOSE e \in AddrTable : e[2] = addr)[1]

(***************************************************************************)
(* check_transaction_state, lines 232-249: namespace stripping and the      *)
(* transaction id.                                                          *)
(***************************************************************************)
\* strip_namespace that leaves the topic as decoded
strip_namespace_never(message_ext, namespace) == message_ext

strip_namespace(message_ext, namespace) ==
    IF namespace # None
    THEN [message_ext EXCEPT
            !.topic = without_namespace_with_namespace(@, UnwrapOr(namespace, ""))]
    ELSE message_ext

attach_transaction_id(message_ext) ==
    LET transaction_id ==
            get_property(message_ext.properties, PROPERTY_UNIQ_CLIENT_MESSAGE_ID_KEYIDX)
    IN  IF transaction_id # None /\ Unwrap(transaction_id) # ""
        THEN [message_ext EXCEPT !.transaction_id = transaction_id]
        ELSE message_ext

(***************************************************************************)
(* check_transaction_state up to its call of select_producer:               *)
(*   "panic"   an unwrap() failed (header decode, or an absent body);       *)
(*   "return"  the flow stopped and the handler returned Ok(None);          *)
(*   "select"  the prepared message, on its way to select_producer.         *)
(* upgraded says whether client_instance.upgrade() gave a live instance.    *)
(***************************************************************************)
check_transaction_state(request, upgraded, namespace) ==
    IF decode_command_custom_header(request, "CheckTransactionStateRequestHeader") = None
    THEN [kind |-> "panic"]
    ELSE IF request.body = None THEN [kind |-> "panic"]
    ELSE LET message_ext == decode(Unwrap(request.body))
         IN  IF message_ext = None THEN [kind |-> "return", result |-> OkNone]
             ELSE IF ~upgraded THEN [kind |-> "return", result |-> OkNone]
             ELSE LET prepared ==
                          attach_transaction_id(strip_namespace(Unwrap(message_ext), namespace))
                  IN  IF get_property(prepared.properties, PROPERTY_PRODUCER_GROUP) = None
                      THEN [kind |-> "return", result |-> OkNone]
                      ELSE [kind |-> "select", msg |-> prepared]

\* check_invocation that passes the store host of the message as the address
check_invocation_store_host(group, request, message_ext) ==
    [producer |-> group,
     addr |-> "127.0.0.1:0",
     msg |-> message_ext,
     header |-> Unwrap(decode_command_custom_header(request,
                                                    "CheckTransactionStateRequestHeader"))]

\* the producer invocation of lines 254-259
check_invocation(group, request, message_ext) ==
    [producer |-> group,
     addr |-> addr_to_string(request.addr),
     msg |-> message_ext,
     header |-> Unwrap(decode_command_custom_header(request,
                                                    "CheckTransactionStateRequestHeader"))]


(***************************************************************************)
(* The requests a broker may push.                                          *)
(***************************************************************************)
\* the born-host / store-host pairs of the reply headers
HostPairs ==
    {<<"", "10.0.0.1:9876">>, <<"not-an-address", "">>,
     <<"10.0.0.1:9876", "not-an-address">>, <<"not-an-address", "not-an-address">>}

SysFlags == {0, 1, 257}

ReplyBodies == {None, Some(<<120, 7>>), Some(<<4, 8>>)}

CorrIds == {"cid-1", "cid-2"}

PropertyStrings ==
    {None,
     Some(<< <<PROPERTY_CORRELATION_ID, "cid-1">> >>),
     Some(<< <<PROPERTY_CORRELATION_ID, "cid-2">> >>),
     Some(<< <<PROPERTY_REPLY_MESSAGE_ARRIVE_TIME, "1">>,
             <<PROPERTY_CORRELATION_ID, "cid-1">> >>)}

ChannelAddrs == {e[2] : e \in AddrTable}

ReplyHeaders ==
    {[topic |-> <<"ReplyTopic">>, queue_id |-> 1, store_timestamp |-> 5,
      born_timestamp |-> 4, flag |-> 0, reconsume_times |-> None,
      born_host |-> hp[1], store_host |-> hp[2], sys_flag |-> f, properties |-> p] :
        hp \in HostPairs, f \in SysFlags, p \in PropertyStrings}

CheckHeaders == {[msg_id |-> "m-1", tran_state_table_offset |-> 8]}

CheckBodies ==
    {None, Some(<<9>>)}
    \cup {Some(<<77, t, g, k>>) :
            t \in DOMAIN TopicTable, g \in DOMAIN GroupTable, k \in DOMAIN KeyTable}

NotifyHeaders == {[consumer_group |-> "CG1"]}

NoHeader == [garbage |-> TRUE]

NoAddr == CHOOSE a \in ChannelAddrs : TRUE

ReplyRequests ==
    {[code |-> "PushReplyMessageToClient", ext |-> "ReplyMessageRequestHeader",
      header |-> hd, body |-> b, addr |-> NoAddr] : hd \in ReplyHeaders, b \in ReplyBodies}
    \cup {[code |-> "PushReplyMessageToClient", ext |-> "Garbage",
           header |-> NoHeader, body |-> Some(<<4, 8>>), addr |-> NoAddr]}

CheckRequests ==
    {[code |-> "CheckTransactionState", ext |-> "CheckTransactionStateRequestHeader",
      header |-> hd, body |-> b, addr |-> a] :
        hd \in CheckHeaders, b \in CheckBodies, a \in ChannelAddrs}
    \cup {[code |-> "CheckTransactionState", ext |-> "Garbage",
           header |-> NoHeader, body |-> Some(<<77, 1, 2, 1>>), addr |-> NoAddr]}

NotifyRequests ==
    {[code |-> "NotifyConsumerIdsChanged",
      ext |-> "NotifyConsumerIdsChangedRequestHeader",
      header |-> hd, body |-> None, addr |-> NoAddr] : hd \in NotifyHeaders}
    \cup {[code |-> "NotifyConsumerIdsChanged", ext |-> "Garbage",
           header |-> NoHeader, body |-> None, addr |-> NoAddr]}

PlainRequests(codes) ==
    {[code |-> c, ext |-> "Garbage", header |-> NoHeader, body |-> None,
      addr |-> NoAddr] : c \in codes}

\* the readings get_current_millis() may give
Times == {1, 2}

ProducerGroups == {"PG1"}

Namespaces == {None, Some("NS")}

(***************************************************************************)
(* State.                                                                   *)
(*   h             per handler (one connection's process_request task): pc, *)
(*                 the request being processed, the message assembled from  *)
(*                 it, the receive_time local of receive_reply_message and  *)
(*                 the future process_reply_message's lookup returned (all  *)
(*                 dropped at the return), and the result the last call     *)
(*                 returned.  pending_at_arrival is history, read by no     *)
(*                 action: whether the reply's correlation id was           *)
(*                 registered when receive_reply_message was entered;       *)
(*   status        REQUEST_FUTURE_HOLDER: which correlation ids are         *)
(*                 registered now, were removed, or were never issued;      *)
(*   future        the RequestResponseFuture of each correlation id;        *)
(*   nreq          process_request calls started;                           *)
(*   owner         whether the owner still holds the MQClientInstance;      *)
(*   namespace     client_config.get_namespace();                           *)
(*   producers     the groups with a registered producer;                   *)
(*   rebalanceCalls  re_balance_immediately() calls made;                   *)
(*   notified      the NotifyConsumerIdsChanged requests handled so far     *)
(*                 that found the client instance alive (live) and torn     *)
(*                 down (dead);                                             *)
(*   checkCalls    the producer check_transaction_state invocations made.   *)
(***************************************************************************)
VARIABLES h, status, future, nreq, owner, namespace, producers,
          rebalanceCalls, notified, checkCalls

vars == <<h, status, future, nreq, owner, namespace, producers,
          rebalanceCalls, notified, checkCalls>>

Handlers == {1, 2}

\* the handlers that run in the sequential specification
SeqHandlers == {1}

IdleHandler ==
    [pc |-> "idle", req |-> None, msg |-> None, result |-> None,
     receive_time |-> None, fut |-> None, pending_at_arrival |-> None]

NewFuture == [callback |-> FALSE, response |-> None, successCalls |-> 0]

holder == {c \in CorrIds : status[c] = "registered"}

\* REQUEST_FUTURE_HOLDER.get_request
get_request(correlation_id) ==
    IF correlation_id \in holder THEN Some(correlation_id) ELSE None

\* WeakArcMut::upgrade: the instance lives while its owner or a handler
\* that upgraded the handle holds it
upgrade ==
    owner \/ \E i \in Handlers : h[i].pc = "select"

Init ==
    /\ h = [i \in Handlers |-> IdleHandler]
    /\ status = [c \in CorrIds |-> "new"]
    /\ future = [c \in CorrIds |-> NewFuture]
    /\ nreq = 0
    /\ owner = TRUE
    /\ namespace \in Namespaces
    /\ producers = {}
    /\ rebalanceCalls = 0
    /\ notified = [live |-> 0, dead |-> 0]
    /\ checkCalls = <<>>


(***************************************************************************)
(* How a process_request call leaves its handler.                           *)
(***************************************************************************)
\* the call returned result: the request and the message are dropped
Finished(result) == [IdleHandler EXCEPT !.result = Some(result)]

\* the call panicked: it returned nothing and the task that ran it is gone
Panicked(request) == [IdleHandler EXCEPT !.pc = "panicked", !.req = Some(request)]

\* the call is suspended at an .await
Suspended(pc, request, msg) ==
    [IdleHandler EXCEPT !.pc = pc, !.req = Some(request), !.msg = Some(msg)]

\* the call has its request and has not run yet
Received(request) == [IdleHandler EXCEPT !.pc = "received", !.req = Some(request)]

\* the transport calls process_request with the next request of a connection
Deliver(i, request) ==
    /\ h[i].pc = "idle"
    /\ nreq < MaxRequests
    /\ nreq' = nreq + 1
    /\ h' = [h EXCEPT ![i] = Received(request)]
    /\ UNCHANGED <<status, future, owner, namespace, producers,
                   rebalanceCalls, notified, checkCalls>>

\* process_request, lines 65-67: the code the dispatch matches on
request_code(i) == IF h[i].pc = "received" THEN Unwrap(h[i].req).code ELSE "none"

(***************************************************************************)
(* process_request, line 83, and receive_reply_message up to the await of   *)
(* process_reply_message's registry lookup.                                 *)
(***************************************************************************)
ReceiveReplyMessage(i, receive_time) ==
    /\ request_code(i) = "PushReplyMessageToClient"
    /\ LET request == Unwrap(h[i].req)
           out == receive_reply_message(request, receive_time)
       IN  h' = [h EXCEPT ![i] =
                    IF out.kind = "panic" THEN Panicked(request)
                    ELSE IF out.kind = "return" THEN Finished(out.result)
                    ELSE [Suspended("lookup", request, out.msg) EXCEPT
                            !.receive_time = Some(receive_time),
                            !.pending_at_arrival =
                                Some(correlation_id_of(out.msg) \in holder)]]
    /\ UNCHANGED <<status, future, nreq, owner, namespace, producers,
                   rebalanceCalls, notified, checkCalls>>

\* reply_result that returns no response
reply_result_silent == OkNone

\* receive_reply_message, lines 103 and 167: the response returned at the end
reply_result == OkSome(create_response_command)

\* lookup_future that also finds a future the registry has removed
lookup_future_stale(reply_msg) ==
    IF \E c \in CorrIds : c = correlation_id_of(reply_msg) /\ status[c] # "new"
    THEN Some(correlation_id_of(reply_msg))
    ELSE None

\* lookup_future that hands out the future of the id without asking the registry
lookup_future_unchecked(reply_msg) ==
    IF correlation_id_of(reply_msg) \in CorrIds
    THEN Some(correlation_id_of(reply_msg))
    ELSE None

\* process_reply_message, lines 171-178: the future the registry has under the
\* reply's correlation id
lookup_future(reply_msg) == get_request(correlation_id_of(reply_msg))

(***************************************************************************)
(* process_reply_message, the registry lookup: a future found is held by    *)
(* the handler (the registry keeps its entry); with none found the warning  *)
(* is logged and receive_reply_message returns.                             *)
(***************************************************************************)
ProcessReplyMessage(i) ==
    /\ h[i].pc = "lookup"
    /\ LET request_response_future == lookup_future(Unwrap(h[i].msg))
       IN  h' = [h EXCEPT ![i] =
                    IF request_response_future # None
                    THEN [@ EXCEPT !.pc = "complete", !.fut = request_response_future]
                    ELSE Finished(reply_result)]
    /\ UNCHANGED <<status, future, nreq, owner, namespace, producers,
                   rebalanceCalls, notified, checkCalls>>

(***************************************************************************)
(* process_reply_message, lines 179-182, on the future the lookup returned, *)
(* and the return of receive_reply_message.  Other threads run between the  *)
(* lookup and this step.                                                    *)
(***************************************************************************)
CompleteFuture(i) ==
    /\ h[i].pc = "complete"
    /\ future' = [future EXCEPT ![Unwrap(h[i].fut)] =
                      complete_future(@, Unwrap(h[i].msg))]
    /\ h' = [h EXCEPT ![i] = Finished(reply_result)]
    /\ UNCHANGED <<status, nreq, owner, namespace, producers,
                   rebalanceCalls, notified, checkCalls>>

(***************************************************************************)
(* process_request, lines 84-86, and notify_consumer_ids_changed.           *)
(***************************************************************************)
\* re_balance that skips a rebalance when one was already triggered
re_balance_once(calls, upgraded) == IF upgraded /\ calls = 0 THEN 1 ELSE calls

\* lines 207-209: the rebalance calls after one notification
re_balance(calls, upgraded) == IF upgraded THEN calls + 1 ELSE calls

NotifyConsumerIdsChanged(i) ==
    /\ request_code(i) = "NotifyConsumerIdsChanged"
    /\ IF decode_command_custom_header(Unwrap(h[i].req),
                                       "NotifyConsumerIdsChangedRequestHeader") = None
       THEN /\ h' = [h EXCEPT ![i] = Panicked(Unwrap(h[i].req))]
            /\ UNCHANGED <<rebalanceCalls, notified>>
       ELSE /\ rebalanceCalls' = re_balance(rebalanceCalls, upgrade)
            /\ notified' = IF upgrade THEN [notified EXCEPT !.live = @ + 1]
                                      ELSE [notified EXCEPT !.dead = @ + 1]
            /\ h' = [h EXCEPT ![i] = Finished(OkNone)]
    /\ UNCHANGED <<status, future, nreq, owner, namespace, producers, checkCalls>>

(***************************************************************************)
(* process_request, lines 68-70, and check_transaction_state up to the      *)
(* await of select_producer.                                                *)
(***************************************************************************)
CheckTransactionState(i) ==
    /\ request_code(i) = "CheckTransactionState"
    /\ LET request == Unwrap(h[i].req)
           out == check_transaction_state(request, upgrade, namespace)
       IN  h' = [h EXCEPT ![i] =
                    IF out.kind = "panic" THEN Panicked(request)
                    ELSE IF out.kind = "return" THEN Finished(out.result)
                    ELSE Suspended("select", request, out.msg)]
    /\ UNCHANGED <<status, future, nreq, owner, namespace, producers,
                   rebalanceCalls, notified, checkCalls>>

\* MQClientInstance::select_producer
select_producer(group) == IF group \in producers THEN Some(group) ELSE None

\* check_transaction_state from the producer lookup on, lines 252-270
SelectProducer(i) ==
    /\ h[i].pc = "select"
    /\ LET message_ext == Unwrap(h[i].msg)
           request == Unwrap(h[i].req)
           group == Unwrap(get_property(message_ext.properties, PROPERTY_PRODUCER_GROUP))
           producer == select_producer(group)
       IN  /\ IF producer # None
              THEN checkCalls' =
                       Append(checkCalls,
                              check_invocation(Unwrap(producer), request, message_ext))
              ELSE UNCHANGED checkCalls
           /\ h' = [h EXCEPT ![i] = Finished(OkNone)]
    /\ UNCHANGED <<status, future, nreq, owner, namespace, producers,
                   rebalanceCalls, notified>>

(***************************************************************************)
(* process_request, lines 71-82: the four codes that are matched and end in *)
(* unimplemented!().                                                        *)
(***************************************************************************)
\* Unimplemented that returns Ok(None) as the unknown-code branch does
Unimplemented_silent(i) ==
    /\ request_code(i) \in UnimplementedCodes
    /\ h' = [h EXCEPT ![i] = Finished(OkNone)]
    /\ UNCHANGED <<status, future, nreq, owner, namespace, producers,
                   rebalanceCalls, notified, checkCalls>>

Unimplemented(i) ==
    /\ request_code(i) \in UnimplementedCodes
    /\ h' = [h EXCEPT ![i] = Panicked(Unwrap(h[i].req))]
    /\ UNCHANGED <<status, future, nreq, owner, namespace, producers,
                   rebalanceCalls, notified, checkCalls>>

\* UnknownCode that answers the request with a response
UnknownCode_answers(i) ==
    /\ h[i].pc = "received"
    /\ request_code(i) \notin UnimplementedCodes \cup ImplementedCodes
    /\ h' = [h EXCEPT ![i] = Finished(OkSome(create_response_command))]
    /\ UNCHANGED <<status, future, nreq, owner, namespace, producers,
                   rebalanceCalls, notified, checkCalls>>

\* process_request, lines 88-91: any other code
UnknownCode(i) ==
    /\ h[i].pc = "received"
    /\ request_code(i) \notin UnimplementedCodes \cup ImplementedCodes
    /\ h' = [h EXCEPT ![i] = Finished(OkNone)]
    /\ UNCHANGED <<status, future, nreq, owner, namespace, producers,
                   rebalanceCalls, notified, checkCalls>>

\* process_request: the dispatch on the request code
process_request(i) ==
    \/ CheckTransactionState(i)
    \/ Unimplemented(i)
    \/ \E receive_time \in Times : ReceiveReplyMessage(i, receive_time)
    \/ NotifyConsumerIdsChanged(i)
    \/ UnknownCode(i)

(***************************************************************************)
(* The collaborators' own steps.                                            *)
(***************************************************************************)
\* the client issues a request and registers its future
RegisterFuture(c, cb) ==
    /\ status[c] = "new"
    /\ status' = [status EXCEPT ![c] = "registered"]
    /\ future' = [future EXCEPT ![c] = [NewFuture EXCEPT !.callback = cb]]
    /\ UNCHANGED <<h, nreq, owner, namespace, producers,
                   rebalanceCalls, notified, checkCalls>>

\* the registry's timeout path removes a future
RemoveFuture(c) ==
    /\ status[c] = "registered"
    /\ status' = [status EXCEPT ![c] = "removed"]
    /\ UNCHANGED <<h, future, nreq, owner, namespace, producers,
                   rebalanceCalls, notified, checkCalls>>

\* the owner drops the client instance
TearDown ==
    /\ owner
    /\ owner' = FALSE
    /\ UNCHANGED <<h, status, future, nreq, namespace, producers,
                   rebalanceCalls, notified, checkCalls>>

RegisterProducer(g) ==
    /\ upgrade
    /\ g \notin producers
    /\ producers' = producers \cup {g}
    /\ UNCHANGED <<h, status, future, nreq, owner, namespace,
                   rebalanceCalls, notified, checkCalls>>

UnregisterProducer(g) ==
    /\ g \in producers
    /\ producers' = producers \ {g}
    /\ UNCHANGED <<h, status, future, nreq, owner, namespace,
                   rebalanceCalls, notified, checkCalls>>

Environment ==
    \/ \E c \in CorrIds, cb \in BOOLEAN : RegisterFuture(c, cb)
    \/ \E c \in CorrIds : RemoveFuture(c)
    \/ TearDown
    \/ \E g \in ProducerGroups : RegisterProducer(g)
    \/ \E g \in ProducerGroups : UnregisterProducer(g)

(***************************************************************************)
(* Specifications.  Requests are handled one at a time by one handler.      *)
(*   Spec        the dispatcher over every request code, with a cross       *)
(*               section of each flow's requests;                           *)
(*   SpecReply   the reply flow over all reply requests;                    *)
(*   SpecClient  the transaction-check and rebalance flows over all their   *)
(*               requests.                                                  *)
(* SpecRace runs two handlers at once (two connections' tasks on the        *)
(* runtime's worker threads), over replies that reach the correlator, with  *)
(* the registry's registration and timeout paths.                           *)
(***************************************************************************)
DispatchRequests ==
    {r \in ReplyRequests :
        r.ext = "ReplyMessageRequestHeader" =>
            /\ r.header.born_host = "" /\ r.header.store_host = "10.0.0.1:9876"
            /\ r.header.properties
                 \in {None, Some(<< <<PROPERTY_CORRELATION_ID, "cid-1">> >>)}}
    \cup {r \in CheckRequests :
            /\ r.addr = NoAddr
            /\ r.body \in {None, Some(<<9>>), Some(<<77, 1, 1, 1>>), Some(<<77, 2, 2, 3>>)}}
    \cup NotifyRequests
    \cup PlainRequests(UnimplementedCodes) \cup PlainRequests(OtherCodes)

Next ==
    \/ \E i \in SeqHandlers, request \in DispatchRequests : Deliver(i, request)
    \/ \E i \in SeqHandlers : process_request(i)
    \/ \E i \in SeqHandlers : ProcessReplyMessage(i)
    \/ \E i \in SeqHandlers : CompleteFuture(i)
    \/ \E i \in SeqHandlers : SelectProducer(i)
    \/ Environment

Spec == Init /\ [][Next]_vars

NextReply ==
    \/ \E i \in SeqHandlers, request \in ReplyRequests : Deliver(i, request)
    \/ \E i \in SeqHandlers, receive_time \in Times : ReceiveReplyMessage(i, receive_time)
    \/ \E i \in SeqHandlers : ProcessReplyMessage(i)
    \/ \E i \in SeqHandlers : CompleteFuture(i)
    \/ \E c \in CorrIds, cb \in BOOLEAN : RegisterFuture(c, cb)
    \/ \E c \in CorrIds : RemoveFuture(c)

\* the reply flow reads nothing of the client instance: one configuration
InitReply == Init /\ namespace = None

SpecReply == InitReply /\ [][NextReply]_vars

NextClient ==
    \/ \E i \in SeqHandlers, request \in CheckRequests \cup NotifyRequests :
            Deliver(i, request)
    \/ \E i \in SeqHandlers : CheckTransactionState(i)
    \/ \E i \in SeqHandlers : SelectProducer(i)
    \/ \E i \in SeqHandlers : NotifyConsumerIdsChanged(i)
    \/ TearDown
    \/ \E g \in ProducerGroups : RegisterProducer(g)
    \/ \E g \in ProducerGroups : UnregisterProducer(g)

SpecClient == Init /\ [][NextClient]_vars

\* well-formed, uncompressed replies that carry a correlation id
RaceRequests ==
    {r \in ReplyRequests :
        /\ r.ext = "ReplyMessageRequestHeader"
        /\ r.header.born_host = "" /\ r.header.store_host = "10.0.0.1:9876"
        /\ r.header.sys_flag = 0
        /\ r.body = None
        /\ r.header.properties
              \in {Some(<< <<PROPERTY_CORRELATION_ID, c>> >>) : c \in CorrIds}}

NextRace ==
    \/ \E i \in Handlers, request \in RaceRequests : Deliver(i, request)
    \/ \E i \in Handlers, receive_time \in Times : ReceiveReplyMessage(i, receive_time)
    \/ \E i \in Handlers : ProcessReplyMessage(i)
    \/ \E i \in Handlers : CompleteFuture(i)
    \/ \E c \in CorrIds, cb \in BOOLEAN : RegisterFuture(c, cb)
    \/ \E c \in CorrIds : RemoveFuture(c)

SpecRace == InitReply /\ [][NextRace]_vars


(***************************************************************************)
(* Vocabulary of the properties.                                            *)
(***************************************************************************)
\* handler i runs its call in this step: to a return, an await or a panic
Runs(i) == h[i].pc = "received" /\ h'[i] # h[i]

\* handler i's call returns in this step
Returns(i) == h[i].pc # "idle" /\ h'[i].pc = "idle"

IsReply(request) == request.code = "PushReplyMessageToClient"

ReplyHeaderDecodes(request) == request.ext = "ReplyMessageRequestHeader"

HostValidOrEmpty(host) == host = "" \/ \E e \in AddrTable : e[1] = host

\* a reply request that passes the header decode and both host checks
WellFormedReply(request) ==
    /\ IsReply(request)
    /\ ReplyHeaderDecodes(request)
    /\ HostValidOrEmpty(request.header.born_host)
    /\ HostValidOrEmpty(request.header.store_host)

SystemErrorWith(remark) == [code |-> "SystemError", remark |-> Some(remark)]

PlainSuccess == [code |-> "Success", remark |-> None]

\* the correlation id a message carries, if it is a registered one
CarriesRegistered(msg, c) ==
    /\ msg.properties[PROPERTY_CORRELATION_ID] = Some(c)
    /\ status[c] = "registered"

(***************************************************************************)
(* C1.  When the reply handed to process_reply_message carries the          *)
(* correlation id of a future registered at the lookup, the lookup returns   *)
(* that future, and when the call ends that future's response slot holds    *)
(* the assembled message, and its success path ran once more if it has a    *)
(* callback and not at all if it has none.                                  *)
(***************************************************************************)
C1_ReplyCompletesFuture ==
    [][\A i \in Handlers, c \in CorrIds :
          /\ (/\ h[i].pc = "lookup"
              /\ h'[i] # h[i]
              /\ CarriesRegistered(Unwrap(h[i].msg), c))
             => /\ h'[i].pc = "complete"
                /\ h'[i].fut = Some(c)
                /\ h'[i].msg = h[i].msg
          /\ (/\ h[i].pc = "complete"
              /\ h'[i] # h[i]
              /\ h[i].fut = Some(c))
             => /\ Returns(i)
                /\ future'[c].response = h[i].msg
                /\ future'[c].successCalls =
                       future[c].successCalls + (IF future[c].callback THEN 1 ELSE 0)
                /\ \A d \in CorrIds \ {c} : future'[d] = future[d]]_vars

\* a future with a callback completed by one reply, and one without a callback
C1_Witness ==
    /\ future["cid-1"].callback
    /\ future["cid-1"].response # None
    /\ future["cid-1"].successCalls = 1
    /\ ~future["cid-2"].callback
    /\ future["cid-2"].response # None
    /\ future["cid-2"].successCalls = 0

(***************************************************************************)
(* C2.  For a reply request whose header decodes, whose hosts are valid or  *)
(* empty and whose sys-flag lacks the compression bit, the body of the      *)
(* message handed to the correlator equals the request body.                *)
(***************************************************************************)
C2_UncompressedBodyVerbatim ==
    \A i \in Handlers :
        (/\ h[i].pc = "lookup"
         /\ Unwrap(h[i].req).header.sys_flag % 2 = 0)
        => Unwrap(h[i].msg).body = Unwrap(h[i].req).body

(***************************************************************************)
(* C3.  A reply request whose custom header does not decode ends with a     *)
(* system-error response, nothing handed to the correlator and no pending   *)
(* future changed.                                                          *)
(***************************************************************************)
C3_HeaderDecodeFailureAnswered ==
    [][\A i \in Handlers :
          (/\ Runs(i)
           /\ IsReply(Unwrap(h[i].req))
           /\ ~ReplyHeaderDecodes(Unwrap(h[i].req)))
          => /\ h'[i].pc = "idle"
             /\ h'[i].result # None
             /\ Unwrap(h'[i].result).response # None
             /\ Unwrap(Unwrap(h'[i].result).response).code = "SystemError"
             /\ future' = future
             /\ status' = status]_vars

(***************************************************************************)
(* C4.  No request terminates the dispatcher: every process_request call    *)
(* returns a result, so no handler is ever left without one.                *)
(***************************************************************************)
C4_EveryCallReturns ==
    \A i \in Handlers : h[i].pc # "panicked"

(***************************************************************************)
(* C5.  A CheckTransactionState request whose embedded message carries      *)
(* producer group G, with a live client instance, reaches the producer      *)
(* lookup; there the producer registered under G is invoked exactly once    *)
(* with the channel's remote address, the decoded message and the decoded   *)
(* header, and nothing is invoked when no producer is registered under G.   *)
(* No other step invokes a producer.                                        *)
(***************************************************************************)
C5_CheckInvokesProducer ==
    [][/\ \A i \in Handlers :
            (/\ Runs(i)
             /\ Unwrap(h[i].req).code = "CheckTransactionState"
             /\ Unwrap(h[i].req).ext = "CheckTransactionStateRequestHeader"
             /\ Unwrap(h[i].req).body # None
             /\ decode(Unwrap(Unwrap(h[i].req).body)) # None
             /\ Unwrap(decode(Unwrap(Unwrap(h[i].req).body)))
                    .properties[PROPERTY_PRODUCER_GROUP] # None
             /\ upgrade)
            => /\ h'[i].pc = "select"
               /\ Unwrap(h'[i].msg).properties =
                      Unwrap(decode(Unwrap(Unwrap(h[i].req).body))).properties
               /\ Unwrap(h'[i].msg).body =
                      Unwrap(decode(Unwrap(Unwrap(h[i].req).body))).body
       /\ \A i \in Handlers :
            (h[i].pc = "select" /\ Returns(i))
            => LET G == Unwrap(Unwrap(h[i].msg).properties[PROPERTY_PRODUCER_GROUP])
               IN  IF G \in producers
                   THEN checkCalls' =
                            Append(checkCalls,
                                   [producer |-> G,
                                    addr |-> (CHOOSE e \in AddrTable :
                                                 e[2] = Unwrap(h[i].req).addr)[1],
                                    msg |-> Unwrap(h[i].msg),
                                    header |-> Unwrap(h[i].req).header])
                   ELSE checkCalls' = checkCalls
       /\ (checkCalls' # checkCalls)
            => \E i \in Handlers : h[i].pc = "select" /\ Returns(i)]_vars

\* one producer invocation made, and a later check whose group has no producer done
C5_Witness ==
    /\ Len(checkCalls) = 1
    /\ checkCalls[1].producer = "PG1"
    /\ checkCalls[1].addr = "10.0.0.2:10911"
    /\ nreq = 2
    /\ \E i \in Handlers : h[i].pc = "idle" /\ h[i].result = Some(OkNone)

(***************************************************************************)
(* C6.  Each NotifyConsumerIdsChanged request with a decodable header makes *)
(* one re_balance_immediately call when the client instance is alive and    *)
(* none when it is torn down, and returns no response; over N requests      *)
(* against a live instance exactly N calls are made.                        *)
(***************************************************************************)
C6_OneRebalancePerNotification ==
    /\ [][\A i \in Handlers :
            (/\ Runs(i)
             /\ Unwrap(h[i].req).code = "NotifyConsumerIdsChanged"
             /\ Unwrap(h[i].req).ext = "NotifyConsumerIdsChangedRequestHeader")
            => /\ rebalanceCalls' = rebalanceCalls + (IF upgrade THEN 1 ELSE 0)
               /\ h'[i].pc = "idle"
               /\ h'[i].result = Some(OkNone)]_vars
    /\ [](rebalanceCalls = notified.live)

\* two notifications against a live instance
C6_Witness ==
    /\ notified.live = 2
    /\ rebalanceCalls = 2

(***************************************************************************)
(* C7.  A reply header whose born-host (or, the born-host being fine, whose *)
(* store-host) is non-empty and does not parse gives a system-error         *)
(* response whose remark names that field; the correlator is not run and    *)
(* no pending future is touched.                                            *)
(***************************************************************************)
C7_MalformedHostRejected ==
    [][\A i \in Handlers :
          (/\ Runs(i)
           /\ IsReply(Unwrap(h[i].req))
           /\ ReplyHeaderDecodes(Unwrap(h[i].req))
           /\ ~(/\ HostValidOrEmpty(Unwrap(h[i].req).header.born_host)
                /\ HostValidOrEmpty(Unwrap(h[i].req).header.store_host)))
          => /\ h'[i].pc = "idle"
             /\ h'[i].msg = None
             /\ h'[i].result =
                    Some(OkSome(SystemErrorWith(
                        IF HostValidOrEmpty(Unwrap(h[i].req).header.born_host)
                        THEN "parse store_host failed"
                        ELSE "parse born_host failed")))
             /\ future' = future
             /\ status' = status]_vars

\* a reply rejected for its store-host while a future is registered
C7_Witness ==
    /\ \E i \in Handlers :
          h[i].result = Some(OkSome(SystemErrorWith("parse store_host failed")))
    /\ \E c \in CorrIds : status[c] = "registered" /\ future[c].response = None

(***************************************************************************)
(* C8.  For a well-formed reply request with the compression bit set and a  *)
(* body: the message is handed to the correlator (the request is not        *)
(* failed), with the decompressed bytes as its body when decompression with *)
(* the sys-flag's algorithm succeeds and the raw request body when it       *)
(* fails.                                                                   *)
(***************************************************************************)
C8_CompressedBody ==
    [][\A i \in Handlers :
          (/\ Runs(i)
           /\ WellFormedReply(Unwrap(h[i].req))
           /\ Unwrap(h[i].req).header.sys_flag % 2 = 1
           /\ Unwrap(h[i].req).body # None)
          => LET request == Unwrap(h[i].req)
                 inflated == decompress(get_compression_type(request.header.sys_flag),
                                        Unwrap(request.body))
             IN  /\ h'[i].pc = "lookup"
                 /\ Unwrap(h'[i].msg).body =
                        (IF inflated # None THEN inflated ELSE request.body)]_vars

\* a decompressed reply delivered to a future, and a reply whose decompression
\* failed on its way to the correlator with its raw body
C8_Witness ==
    /\ \E c \in CorrIds :
          /\ future[c].response # None
          /\ Unwrap(future[c].response).body = Some(<<7>>)
    /\ \E i \in Handlers :
          /\ h[i].pc = "lookup"
          /\ Unwrap(h[i].req).header.sys_flag = 257
          /\ Unwrap(h[i].req).body = Some(<<120, 7>>)
          /\ Unwrap(h[i].msg).body = Some(<<120, 7>>)

(***************************************************************************)
(* C9.  A reply whose correlation id is the id of no future registered at   *)
(* the lookup ends its call at the lookup and leaves the registry and every *)
(* future unchanged.                                                        *)
(***************************************************************************)
C9_UnmatchedReplyChangesNothing ==
    [][\A i \in Handlers :
          (/\ h[i].pc = "lookup"
           /\ h'[i] # h[i]
           /\ ~\E c \in CorrIds : CarriesRegistered(Unwrap(h[i].msg), c))
          => /\ Returns(i)
             /\ future' = future
             /\ status' = status]_vars

\* two unmatched replies answered (one without a correlation id would leave
\* the same state) while a registered future is still untouched
C9_Witness ==
    /\ nreq = 2
    /\ \E i \in Handlers : h[i].pc = "idle" /\ h[i].result = Some(OkSome(PlainSuccess))
    /\ status["cid-1"] = "registered"
    /\ status["cid-2"] = "new"
    /\ future["cid-1"].response = None
    /\ future["cid-1"].successCalls = 0

(***************************************************************************)
(* C10.  Every well-formed reply request (header decodes, hosts valid or    *)
(* empty) is answered with a plain success response: its call reaches the   *)
(* correlator and returns that response from there, match or no match.      *)
(***************************************************************************)
C10_WellFormedReplyAnswered ==
    [][\A i \in Handlers :
          /\ (Runs(i) /\ WellFormedReply(Unwrap(h[i].req)))
                => h'[i].pc = "lookup"
          /\ (h[i].pc = "lookup" /\ h'[i] # h[i])
                => \/ h'[i].pc = "complete"
                   \/ /\ h'[i].pc = "idle"
                      /\ h'[i].result = Some(OkSome(PlainSuccess))
          /\ (h[i].pc = "complete" /\ h'[i] # h[i])
                => /\ h'[i].pc = "idle"
                   /\ h'[i].result = Some(OkSome(PlainSuccess))]_vars

(***************************************************************************)
(* C11.  Every message on its way to the correlator carries the             *)
(* reply-arrival-time property, and its value is the receive time the call  *)
(* recorded at its start, also when the header's properties string has a    *)
(* value for that key.                                                      *)
(***************************************************************************)
C11_ArrivalTimeIsReceiveTime ==
    \A i \in Handlers :
        h[i].pc \in {"lookup", "complete"}
        => get_property(Unwrap(h[i].msg).properties, PROPERTY_REPLY_MESSAGE_ARRIVE_TIME)
              = Some(ToString(Unwrap(h[i].receive_time)))

\* a reply whose properties string says arrival time "1", received at time 2
C11_Witness ==
    \E i \in Handlers :
        /\ h[i].pc = "lookup"
        /\ Unwrap(h[i].req).header.properties =
               Some(<< <<PROPERTY_REPLY_MESSAGE_ARRIVE_TIME, "1">>,
                       <<PROPERTY_CORRELATION_ID, "cid-1">> >>)
        /\ h[i].receive_time = Some(2)
        /\ Unwrap(h[i].msg).properties[PROPERTY_REPLY_MESSAGE_ARRIVE_TIME] = Some("2")

(***************************************************************************)
(* C12.  The message a producer is invoked with has topic TopicA when the   *)
(* client instance's namespace is NS and the decoded topic is NS%TopicA,    *)
(* and has the decoded topic when no namespace is configured.               *)
(***************************************************************************)
C12_NamespaceStripped ==
    [][\A i \in Handlers :
          (/\ h[i].pc = "select"
           /\ Returns(i)
           /\ Len(checkCalls') = Len(checkCalls) + 1)
          => LET decoded == Unwrap(decode(Unwrap(Unwrap(h[i].req).body)))
                 handed == checkCalls'[Len(checkCalls')].msg
             IN  /\ (namespace = Some("NS") /\ decoded.topic = <<"NS", "TopicA">>)
                        => handed.topic = <<"TopicA">>
                 /\ namespace = None => handed.topic = decoded.topic]_vars

\* a producer invoked, under namespace NS, with TopicA for a message whose
\* encoded topic is NS%TopicA
C12_Witness ==
    /\ namespace = Some("NS")
    /\ Len(checkCalls) = 1
    /\ TopicTable[Unwrap(checkCalls[1].msg.body)[2]] = <<"NS", "TopicA">>
    /\ checkCalls[1].msg.topic = <<"TopicA">>

(***************************************************************************)
(* C13.  A request whose code is none of the seven codes process_request    *)
(* names returns no response, and its call changes no future, triggers no   *)
(* rebalance and invokes no producer.                                       *)
(***************************************************************************)
C13_UnknownCodeNoEffect ==
    [][\A i \in Handlers :
          (/\ Runs(i)
           /\ Unwrap(h[i].req).code \notin
                  {"CheckTransactionState", "ResetConsumerClientOffset",
                   "GetConsumerStatusFromClient", "GetConsumerRunningInfo",
                   "ConsumeMessageDirectly", "PushReplyMessageToClient",
                   "NotifyConsumerIdsChanged"})
          => /\ h'[i].pc = "idle"
             /\ h'[i].result = Some(OkNone)
             /\ future' = future
             /\ status' = status
             /\ rebalanceCalls' = rebalanceCalls
             /\ checkCalls' = checkCalls]_vars

\* a request of an unnamed code about to be dispatched, after another call,
\* while a future is pending and the client instance is alive
C13_Witness ==
    /\ \E i \in Handlers :
          h[i].pc = "received" /\ Unwrap(h[i].req).code = "SendMessage"
    /\ nreq = 2
    /\ \E c \in CorrIds : status[c] = "registered"
    /\ owner
    /\ producers # {}

(***************************************************************************)
(* C14.  A request of one of the four unimplemented codes ends in the       *)
(* not-implemented failure of its own dispatch entry: its call does not     *)
(* return, in particular not with the no-response result of the             *)
(* unknown-code branch.                                                     *)
(***************************************************************************)
C14_UnimplementedFailsLoudly ==
    [][\A i \in Handlers :
          (/\ Runs(i)
           /\ Unwrap(h[i].req).code \in
                  {"ResetConsumerClientOffset", "GetConsumerStatusFromClient",
                   "GetConsumerRunningInfo", "ConsumeMessageDirectly"})
          => /\ h'[i].pc = "panicked"
             /\ h'[i].result = None
             /\ h'[i].req = h[i].req]_vars

\* a GetConsumerRunningInfo request that ended in the failure
C14_Witness ==
    \E i \in Handlers :
        /\ h[i].pc = "panicked"
        /\ Unwrap(h[i].req).code = "GetConsumerRunningInfo"

(***************************************************************************)
(* C15.  A CheckTransactionState request whose header decodes never fails   *)
(* its call: the call returns, and with no response.  When the embedded     *)
(* message does not decode, the client instance is torn down or the         *)
(* producer-group property is absent, it returns at once; when no producer  *)
(* is registered under the group, it returns from the producer lookup; in   *)
(* all four cases without a producer invocation.                            *)
(***************************************************************************)
C15_CheckFlowStopsQuietly ==
    [][\A i \in Handlers :
          /\ (/\ Runs(i)
              /\ Unwrap(h[i].req).code = "CheckTransactionState"
              /\ Unwrap(h[i].req).ext = "CheckTransactionStateRequestHeader")
             => LET body == Unwrap(h[i].req).body
                    decodes == body # None /\ decode(Unwrap(body)) # None
                    has_group ==
                        decodes /\ Unwrap(decode(Unwrap(body)))
                                      .properties[PROPERTY_PRODUCER_GROUP] # None
                IN  /\ h'[i].pc \in {"idle", "select"}
                    /\ h'[i].pc = "idle" => h'[i].result = Some(OkNone)
                    /\ (~decodes \/ ~upgrade \/ ~has_group) => h'[i].pc = "idle"
                    /\ checkCalls' = checkCalls
          /\ (h[i].pc = "select" /\ h'[i] # h[i])
             => /\ h'[i].pc = "idle"
                /\ h'[i].result = Some(OkNone)
                /\ select_producer(Unwrap(Unwrap(h[i].msg)
                                            .properties[PROPERTY_PRODUCER_GROUP])) = None
                      => checkCalls' = checkCalls]_vars

(***************************************************************************)
(* C16.  A CheckTransactionState or NotifyConsumerIdsChanged request whose  *)
(* custom header does not decode is dropped: its call returns no response,  *)
(* invokes no producer and triggers no rebalance.                           *)
(***************************************************************************)
C16_HeaderDecodeFailureDropped ==
    [][\A i \in Handlers :
          (/\ Runs(i)
           /\ \/ /\ Unwrap(h[i].req).code = "CheckTransactionState"
                 /\ Unwrap(h[i].req).ext # "CheckTransactionStateRequestHeader"
              \/ /\ Unwrap(h[i].req).code = "NotifyConsumerIdsChanged"
                 /\ Unwrap(h[i].req).ext # "NotifyConsumerIdsChangedRequestHeader")
          => /\ h'[i].pc = "idle"
             /\ h'[i].result = Some(OkNone)
             /\ checkCalls' = checkCalls
             /\ rebalanceCalls' = rebalanceCalls]_vars

(***************************************************************************)
(* C17.  As claimed: a reply whose correlation id is the id of no future    *)
(* registered at the lookup ends its call with no response.                 *)
(***************************************************************************)
C17_UnmatchedReplyNoResponse ==
    [][\A i \in Handlers :
          (/\ h[i].pc = "lookup"
           /\ h'[i] # h[i]
           /\ ~\E c \in CorrIds : CarriesRegistered(Unwrap(h[i].msg), c))
          => /\ h'[i].result # None
             /\ Unwrap(h'[i].result).response = None]_vars

(***************************************************************************)
(* C17, amended.  A reply that reaches the correlator with a correlation id *)
(* that is the id of no future registered at the lookup is answered with    *)
(* the plain success response.                                              *)
(***************************************************************************)
C17_UnmatchedReplyAnswered ==
    [][\A i \in Handlers :
          (/\ h[i].pc = "lookup"
           /\ h'[i] # h[i]
           /\ ~\E c \in CorrIds : CarriesRegistered(Unwrap(h[i].msg), c))
          => /\ h'[i].result # None
             /\ Unwrap(h'[i].result).response = Some(PlainSuccess)]_vars

\* a reply answered with success while no future was ever registered
C17_Witness ==
    /\ \A c \in CorrIds : status[c] = "new"
    /\ nreq = 1
    /\ \E i \in Handlers :
          h[i].pc = "idle" /\ h[i].result = Some(OkSome(PlainSuccess))

(***************************************************************************)
(* C18.  A future is completed at most once: once its response slot is      *)
(* filled, no step assigns the slot or invokes its success callback again,  *)
(* and no registry lookup returns it any more.                              *)
(***************************************************************************)
C18_CompletedAtMostOnce ==
    [][\A c \in CorrIds :
          future[c].response # None
          => /\ future'[c] = future[c]
             /\ \A i \in Handlers :
                   (h[i].pc = "lookup" /\ h'[i] # h[i]) => h'[i].fut # Some(c)]_vars

(***************************************************************************)
(* C19.  As claimed: a reply completes only a future that was registered    *)
(* when the reply arrived at receive_reply_message.                         *)
(***************************************************************************)
C19_CompletesOnlyRegisteredBeforeArrival ==
    [][\A i \in Handlers :
          (h[i].pc = "complete" /\ h'[i] # h[i])
          => h[i].pending_at_arrival = Some(TRUE)]_vars

(***************************************************************************)
(* C19, amended.  A reply completes only a future that was registered when  *)
(* its handler's registry lookup ran, under the reply's correlation id: a   *)
(* future not registered yet is held by no handler and is untouched.        *)
(***************************************************************************)
C19_CompletesOnlyRegisteredBeforeLookup ==
    /\ \A i \in Handlers :
          h[i].pc = "complete"
          => /\ status[Unwrap(h[i].fut)] # "new"
             /\ Unwrap(h[i].msg).properties[PROPERTY_CORRELATION_ID] = h[i].fut
    /\ \A c \in CorrIds :
          status[c] = "new" => future[c].response = None /\ future[c].successCalls = 0

\* a handler about to complete a future that was registered after its reply
\* arrived, while it was suspended at the lookup
C19_Witness ==
    \E i \in Handlers :
        /\ h[i].pc = "complete"
        /\ h[i].pending_at_arrival = Some(FALSE)
        /\ status[Unwrap(h[i].fut)] = "registered"

(***************************************************************************)
(* C20.  As claimed: once a future is removed from the registry, no step    *)
(* writes its response slot or invokes its success callback.                *)
(***************************************************************************)
C20_RemovedNeverCompleted ==
    [][\A c \in CorrIds :
          status[c] = "removed" => future'[c] = future[c]]_vars

(***************************************************************************)
(* C20, amended.  The correlator completes only futures that were in the    *)
(* registry at its lookup: the lookup returns only a future registered at   *)
(* that moment and writes nothing, and a response slot or success count     *)
(* changes only in the completion step of a handler holding that future.    *)
(***************************************************************************)
C20_CompletesOnlyPresentAtLookup ==
    [][/\ \A i \in Handlers :
            (h[i].pc = "lookup" /\ h'[i] # h[i])
            => /\ future' = future
               /\ h'[i].pc = "complete" => status[Unwrap(h'[i].fut)] = "registered"
               /\ h'[i].pc # "complete" => h'[i].fut = None
       /\ \A c \in CorrIds :
            (\/ future'[c].response # future[c].response
             \/ future'[c].successCalls # future[c].successCalls)
            => \E i \in Handlers :
                  h[i].pc = "complete" /\ h[i].fut = Some(c) /\ Returns(i)]_vars

\* a handler holding a future, found at its lookup, that the registry has
\* removed since
C20_Witness ==
    \E i \in Handlers :
        /\ h[i].pc = "complete"
        /\ status[Unwrap(h[i].fut)] = "removed"
        /\ future[Unwrap(h[i].fut)].response = None

=============================================================================
